---- MODULE Spec2Model ----
(***************************************************************************)
(* A model of lip's tooth metadata codec (package toothmetadata:           *)
(* NewFromJSON and Metadata.JSON) and of its path authority (package       *)
(* contexts: the directory accessors, createDirIfNotExist and the two      *)
(* Calculate...Path functions).                                            *)
(*                                                                         *)
(* Strings are sequences of one-character strings, so that lower-casing,   *)
(* the placement regular expression, url.QueryEscape and filepath.Join are *)
(* computed character by character.  A decoded JSON document is the        *)
(* map[string]interface{} that json.Unmarshal hands to NewFromJSON: a      *)
(* function whose domain is the set of keys present in the document.       *)
(***************************************************************************)
EXTENDS Integers, Sequences, FiniteSets, TLC

VARIABLES
    \* ---- toothmetadata ----
    mpc,        \* position of the codec scenario: start, decoded, encoded, redecoded
    jsonData,   \* the document given to NewFromJSON
    result,     \* what NewFromJSON(jsonData) ended with
    encoded,    \* what result.metadata.JSON() returned
    redecoded,  \* what NewFromJSON(encoded.bytes) ended with
    \* ---- contexts ----
    fs,         \* the file system: path -> "absent" | "dir" | "file"
    writable,   \* whether mkdir(2) is permitted (FALSE: EACCES)
    pc,         \* per caller: position inside an accessor call
    call,       \* per caller: the accessor being executed
    todo,       \* per caller: directories the accessor still has to ensure
    stack,      \* per caller: os.MkdirAll's recursion (innermost first)
    ret,        \* per caller: what the last finished call returned
    errno,      \* per caller: the error os.Mkdir just returned, if any
    prev,       \* sequential scenario: the call before the last
    last        \* sequential scenario: the last Calculate...Path call

manifestVars == <<mpc, jsonData, result, encoded, redecoded>>
fsVars == <<fs, writable, pc, call, todo, stack, ret, errno>>
pathVars == <<prev, last>>
vars == <<mpc, jsonData, result, encoded, redecoded,
          fs, writable, pc, call, todo, stack, ret, errno, prev, last>>

(***************************************************************************)
(* Characters                                                              *)
(***************************************************************************)
LowerSeq == <<"a","b","c","d","e","f","g","h","i","j","k","l","m",
              "n","o","p","q","r","s","t","u","v","w","x","y","z">>
UpperSeq == <<"A","B","C","D","E","F","G","H","I","J","K","L","M",
              "N","O","P","Q","R","S","T","U","V","W","X","Y","Z">>
DigitSeq == <<"0","1","2","3","4","5","6","7","8","9">>

Range(s) == {s[i] : i \in DOMAIN s}
IsLower(c) == c \in Range(LowerSeq)
IsUpper(c) == c \in Range(UpperSeq)
IsDigit(c) == c \in Range(DigitSeq)
IsAlnum(c) == IsLower(c) \/ IsUpper(c) \/ IsDigit(c)
\* The class \s of Go's regexp (RE2): [\t\n\f\r ].
IsSpace(c) == c \in {" ", "\t", "\n", "\f", "\r"}

LowerChar(c) ==
    IF IsUpper(c) THEN LowerSeq[CHOOSE i \in DOMAIN UpperSeq : UpperSeq[i] = c]
    ELSE c
\* strings.ToLower
ToLower(s) == [i \in DOMAIN s |-> LowerChar(s[i])]

DigitVal(c) == (CHOOSE i \in DOMAIN DigitSeq : DigitSeq[i] = c) - 1
DigitChar(n) == DigitSeq[n + 1]

(***************************************************************************)
(* tooth.IsValidToothPath, versionutils.Version and                        *)
(* versionmatch.VersionMatch: packages the codec imports.                  *)
(***************************************************************************)
IsValidToothPath(p) ==
    /\ Len(p) >= 1
    /\ IsLower(p[1]) \/ IsDigit(p[1])
    /\ \A i \in DOMAIN p : IsLower(p[i]) \/ IsDigit(p[i]) \/ p[i] \in {"/", ".", "-", "_"}
    /\ p[Len(p)] \notin {"/", "."}

\* A version string is major.minor.patch with one-digit numbers and an
\* optional one-letter pre-release label: "1.0.0", "0.2.1-b".
VersionParses(s) ==
    /\ Len(s) \in {5, 7}
    /\ IsDigit(s[1]) /\ s[2] = "." /\ IsDigit(s[3]) /\ s[4] = "." /\ IsDigit(s[5])
    /\ Len(s) = 7 => (s[6] = "-" /\ IsLower(s[7]))

VersionNewFromString(s) ==
    [major |-> DigitVal(s[1]), minor |-> DigitVal(s[3]), patch |-> DigitVal(s[5]),
     pre |-> IF Len(s) = 7 THEN <<s[7]>> ELSE <<>>]

VersionString(v) ==
    <<DigitChar(v.major), ".", DigitChar(v.minor), ".", DigitChar(v.patch)>>
        \o (IF v.pre = <<>> THEN <<>> ELSE <<"-">> \o v.pre)

ZeroVersion == [major |-> 0, minor |-> 0, patch |-> 0, pre |-> <<>>]

\* A version match is an optional comparison (">=", ">", "<=", "<") before a
\* version, or the wildcard form "M.m.x".
MatchPrefix(s) ==
    IF Len(s) >= 2 /\ s[1] = ">" /\ s[2] = "=" THEN <<">", "=">>
    ELSE IF Len(s) >= 2 /\ s[1] = "<" /\ s[2] = "=" THEN <<"<", "=">>
    ELSE IF Len(s) >= 1 /\ s[1] \in {">", "<"} THEN <<s[1]>>
    ELSE <<>>

MatchRest(s) == SubSeq(s, Len(MatchPrefix(s)) + 1, Len(s))

IsWildcard(s) ==
    /\ Len(s) = 5
    /\ IsDigit(s[1]) /\ s[2] = "." /\ IsDigit(s[3]) /\ s[4] = "." /\ s[5] = "x"

MatchParses(s) == IsWildcard(s) \/ VersionParses(MatchRest(s))

MatchNewFromString(s) ==
    IF IsWildcard(s)
    THEN [matchType |-> <<"x">>,
          version |-> [major |-> DigitVal(s[1]), minor |-> DigitVal(s[3]),
                       patch |-> 0, pre |-> <<>>]]
    ELSE [matchType |-> MatchPrefix(s), version |-> VersionNewFromString(MatchRest(s))]

MatchString(m) ==
    IF m.matchType = <<"x">>
    THEN <<DigitChar(m.version.major), ".", DigitChar(m.version.minor), ".", "x">>
    ELSE m.matchType \o VersionString(m.version)

(***************************************************************************)
(* toothmetadata: the Metadata struct and what a call ends with            *)
(***************************************************************************)
InfoFields == <<"name", "description", "author", "license", "homepage">>
TopFields == {"tooth", "version", "dependencies", "information", "placement"}

\* Metadata{}: the zero value returned beside every error.
EmptyMetadata ==
    [ToothPath |-> <<>>, Version |-> ZeroVersion, Dependencies |-> <<>>,
     Information |-> [Name |-> <<>>, Description |-> <<>>, Author |-> <<>>,
                      License |-> <<>>, Homepage |-> <<>>],
     Placement |-> <<>>]

Returned(m) == [kind |-> "ok", field |-> "none", detail |-> <<>>, metadata |-> m]
\* errors.New("failed to decode JSON into metadata: ..."), with Metadata{}.
Failed(field, detail) ==
    [kind |-> "error", field |-> field, detail |-> detail, metadata |-> EmptyMetadata]
\* A failed type assertion x.(T) without the ", ok" form panics: the call
\* returns nothing at all.
Panicked(field) ==
    [kind |-> "panic", field |-> field, detail |-> <<>>, metadata |-> EmptyMetadata]
NoResult == [kind |-> "none", field |-> "none", detail |-> <<>>, metadata |-> EmptyMetadata]

WellFormed(doc) == "syntax_error" \notin DOMAIN doc
Has(obj, key) == key \in DOMAIN obj

(***************************************************************************)
(* NewFromJSON, step by step in the order of the source                    *)
(***************************************************************************)
\* metadata.ToothPath = strings.ToLower(metadataMap["tooth"].(string))
\* Faulty variant: the lower-casing forgotten.
DecodeToothPathRaw(doc) == doc.tooth
DecodeToothPath(doc) == ToLower(doc.tooth)

\* reg := regexp.MustCompile(`^[a-zA-Z0-9]\S*$`)
RegMatches(s) ==
    /\ Len(s) >= 1
    /\ IsAlnum(s[1])
    /\ \A i \in 2..Len(s) : ~IsSpace(s[i])
\* reg.FindString(s): the match, or "" when there is none.
FindString(s) == IF RegMatches(s) THEN s ELSE <<>>
\* if reg.FindString(source) != source { return error }
PlacementTokenRejected(s) == FindString(s) # s

RECURSIVE Flatten(_)
Flatten(outer) ==
    IF outer = <<>> THEN <<>> ELSE Head(outer) \o Flatten(Tail(outer))

\* The first match string of one dependency, in the order of the nested
\* loops, that versionmatch.NewFromString refuses.
BadMatches(outer) == {i \in DOMAIN Flatten(outer) : ~MatchParses(Flatten(outer)[i])}
FirstBadMatch(outer) ==
    Flatten(outer)[CHOOSE i \in BadMatches(outer) : \A j \in BadMatches(outer) : i <= j]

\* The range over the dependencies map visits the keys in an unspecified
\* order: the error returned is the first bad match of any key that has one.
DependencyErrors(deps) ==
    {FirstBadMatch(deps[k]) : k \in {d \in DOMAIN deps : BadMatches(deps[d]) # {}}}

DecodeDependencies(deps) ==
    [k \in DOMAIN deps |->
        [i \in DOMAIN deps[k] |->
            [j \in DOMAIN deps[k][i] |-> MatchNewFromString(deps[k][i][j])]]]

InfoComplete(doc) ==
    /\ Has(doc, "information")
    /\ \A i \in DOMAIN InfoFields : Has(doc.information, InfoFields[i])

DecodeInformation(info) ==
    [Name |-> info.name, Description |-> info.description, Author |-> info.author,
     License |-> info.license, Homepage |-> info.homepage]

\* What the placement loop does with entry e: "panic", "source",
\* "destination" or "ok".
PlacementEntryOutcome(e) ==
    IF ~Has(e, "source") \/ ~Has(e, "destination") THEN "panic"
    ELSE IF PlacementTokenRejected(e.source) THEN "source"
    ELSE IF PlacementTokenRejected(e.destination) THEN "destination"
    ELSE "ok"

BadEntries(pl) == {i \in DOMAIN pl : PlacementEntryOutcome(pl[i]) # "ok"}
FirstBadEntry(pl) == CHOOSE i \in BadEntries(pl) : \A j \in BadEntries(pl) : i <= j

DecodePlacement(pl) ==
    [i \in DOMAIN pl |-> [Source |-> pl[i].source, Destination |-> pl[i].destination]]

\* Everything NewFromJSON(jsonData) can end with.
NewFromJSON(doc) ==
    IF ~WellFormed(doc) THEN {Failed("syntax", <<>>)}
    ELSE IF ~Has(doc, "tooth") THEN {Panicked("tooth")}
    ELSE IF ~IsValidToothPath(DecodeToothPath(doc))
        THEN {Failed("tooth", DecodeToothPath(doc))}
    ELSE IF ~Has(doc, "version") THEN {Panicked("version")}
    ELSE IF ~VersionParses(doc.version) THEN {Failed("version", doc.version)}
    ELSE IF ~Has(doc, "dependencies") THEN {Panicked("dependencies")}
    ELSE IF DependencyErrors(doc.dependencies) # {}
        THEN {Failed("dependencies", e) : e \in DependencyErrors(doc.dependencies)}
    ELSE IF ~InfoComplete(doc) THEN {Panicked("information")}
    ELSE IF ~Has(doc, "placement") THEN {Panicked("placement")}
    ELSE IF BadEntries(doc.placement) # {}
        THEN LET e == doc.placement[FirstBadEntry(doc.placement)]
                 o == PlacementEntryOutcome(e)
             IN  IF o = "panic" THEN {Panicked("placement")}
                 ELSE IF o = "source" THEN {Failed("source", e.source)}
                 ELSE {Failed("destination", e.destination)}
    ELSE {Returned([ToothPath |-> DecodeToothPath(doc),
                    Version |-> VersionNewFromString(doc.version),
                    Dependencies |-> DecodeDependencies(doc.dependencies),
                    Information |-> DecodeInformation(doc.information),
                    Placement |-> DecodePlacement(doc.placement)])}

(***************************************************************************)
(* Metadata.JSON                                                           *)
(***************************************************************************)
EncodeVersion(v) == VersionString(v)

EncodeDependencies(deps) ==
    [k \in DOMAIN deps |->
        [i \in DOMAIN deps[k] |->
            [j \in DOMAIN deps[k][i] |-> MatchString(deps[k][i][j])]]]

EncodeInformation(info) ==
    [name |-> info.Name, description |-> info.Description, author |-> info.Author,
     license |-> info.License, homepage |-> info.Homepage]

\* Faulty variant: source and destination written under each other's key.
EncodePlacementSwapped(pl) ==
    [i \in DOMAIN pl |-> [source |-> pl[i].Destination, destination |-> pl[i].Source]]
EncodePlacement(pl) ==
    [i \in DOMAIN pl |-> [source |-> pl[i].Source, destination |-> pl[i].Destination]]

\* The map JSON() builds; encoder.Encode of a map of strings, lists and maps
\* does not fail, so err is nil and the bytes are that document.
JSON(m) ==
    [kind |-> "ok",
     bytes |-> [tooth |-> m.ToothPath,
                version |-> EncodeVersion(m.Version),
                dependencies |-> EncodeDependencies(m.Dependencies),
                information |-> EncodeInformation(m.Information),
                placement |-> EncodePlacement(m.Placement)]]
NoBytes == [kind |-> "none", bytes |-> [syntax_error |-> TRUE]]

(***************************************************************************)
(* The documents given to NewFromJSON                                      *)
(***************************************************************************)
MaxPlacement == 2

ToothVals ==
    {<<"a", "/", "b">>, <<"C", "o", "m", ".", "E", "/", "P">>, <<"A", " ", "b">>, <<>>}

VersionVals ==
    {<<"1", ".", "0", ".", "0">>, <<"0", ".", "2", ".", "1", "-", "b">>, <<"1", ".", "x">>}

GE100 == <<">", "=", "1", ".", "0", ".", "0">>
LT200 == <<"<", "2", ".", "0", ".", "0">>
EQ300 == <<"3", ".", "0", ".", "0">>
W10x == <<"1", ".", "0", ".", "x">>
BadMatch == <<"b", "a", "d">>
WorseMatch == <<"=", "1">>

\* The values of one dependency key: OR-groups of AND-lists.
DepListsA ==
    {<< <<GE100, LT200>>, <<EQ300>> >>,
     << <<EQ300>>, <<LT200, GE100>> >>,
     << <<>>, <<W10x>> >>,
     << <<EQ300, BadMatch>>, <<WorseMatch>> >>}
DepListsB == {<< >>, << <<WorseMatch>> >>}

DependencyVals ==
    {<<>>}
    \cup {[pkga |-> a] : a \in DepListsA}
    \cup {[pkga |-> a, pkgb |-> b] : a \in DepListsA, b \in DepListsB}

FullInfo ==
    [name |-> <<"n">>, description |-> <<"<", "&", ">">>, author |-> <<"a", "u">>,
     license |-> <<>>, homepage |-> <<"h">>]
Without(obj, key) == [k \in DOMAIN obj \ {key} |-> obj[k]]
InformationVals ==
    {FullInfo, [FullInfo EXCEPT !.name = <<"m">>]}
    \cup {Without(FullInfo, InfoFields[i]) : i \in DOMAIN InfoFields}

AssetsFile == <<"a", "s", "s", "e", "t", "s", "/", "f", "i", "l", "e", ".", "t", "x", "t">>
TokenX == <<"x">>
TokenAB == <<"a", " ", "b">>
TokenSpAssets == <<" ", "a", "s", "s", "e", "t", "s">>

PlacementEntries ==
    {[source |-> AssetsFile, destination |-> TokenX],
     [source |-> TokenX, destination |-> AssetsFile],
     [source |-> TokenAB, destination |-> TokenX],
     [source |-> TokenX, destination |-> TokenSpAssets],
     [source |-> <<>>, destination |-> TokenX]}

SeqsUpTo(S, n) == UNION {[1..k -> S] : k \in 0..n}
PlacementVals == SeqsUpTo(PlacementEntries, MaxPlacement)

CompleteDocs ==
    {[tooth |-> t, version |-> v, dependencies |-> d, information |-> i, placement |-> p] :
        t \in ToothVals, v \in VersionVals, d \in DependencyVals,
        i \in InformationVals, p \in PlacementVals}

BaseDoc ==
    [tooth |-> <<"a", "/", "b">>, version |-> <<"1", ".", "0", ".", "0">>,
     dependencies |-> <<>>, information |-> FullInfo, placement |-> <<>>]

\* Documents json.Unmarshal refuses, and documents with a top-level key missing.
MalformedDoc == [syntax_error |-> TRUE]
Docs ==
    CompleteDocs \cup {MalformedDoc} \cup {Without(BaseDoc, k) : k \in TopFields}

(***************************************************************************)
(* The codec scenario: decode a document, encode the result, decode again  *)
(***************************************************************************)
CallNewFromJSON ==
    /\ mpc = "start"
    /\ \E doc \in Docs : \E r \in NewFromJSON(doc) :
        /\ jsonData' = doc
        /\ result' = r
    /\ mpc' = "decoded"
    /\ UNCHANGED <<encoded, redecoded, fsVars, pathVars>>

CallJSON ==
    /\ mpc = "decoded"
    /\ result.kind = "ok"
    /\ encoded' = JSON(result.metadata)
    /\ mpc' = "encoded"
    /\ UNCHANGED <<jsonData, result, redecoded, fsVars, pathVars>>

CallNewFromJSONAgain ==
    /\ mpc = "encoded"
    /\ encoded.kind = "ok"
    /\ \E r \in NewFromJSON(encoded.bytes) : redecoded' = r
    /\ mpc' = "redecoded"
    /\ UNCHANGED <<jsonData, result, encoded, fsVars, pathVars>>

(***************************************************************************)
(* contexts: paths.  A path is the sequence of its components below the    *)
(* root; a component, like every string, is a sequence of characters.      *)
(***************************************************************************)
RECURSIVE SplitSlash(_)
\* strings.Split(s, "/")
SplitSlash(s) ==
    IF \A i \in DOMAIN s : s[i] # "/" THEN <<s>>
    ELSE LET k == CHOOSE i \in DOMAIN s : s[i] = "/" /\ \A j \in 1..(i - 1) : s[j] # "/"
         IN  <<SubSeq(s, 1, k - 1)>> \o SplitSlash(SubSeq(s, k + 1, Len(s)))

Parent(path) == SubSeq(path, 1, Len(path) - 1)

RECURSIVE CleanOnto(_, _)
\* filepath.Clean on a rooted path: "" and "." components are dropped and
\* ".." removes the component before it (the root is its own parent).
CleanOnto(dir, comps) ==
    IF comps = <<>> THEN dir
    ELSE LET c == Head(comps)
         IN  IF c = <<>> \/ c = <<".">> THEN CleanOnto(dir, Tail(comps))
             ELSE IF c = <<".", ".">>
                 THEN CleanOnto(IF dir = <<>> THEN dir ELSE Parent(dir), Tail(comps))
             ELSE CleanOnto(Append(dir, c), Tail(comps))

\* filepath.Join(dir, name): the elements joined by the separator, cleaned.
Join(dir, name) == CleanOnto(dir, SplitSlash(name))

\* Context.globalDotLipDir ("/h/.lip") and Context.workspaceDir ("/w/p").
globalDotLipDir == << <<"h">>, <<".", "l", "i", "p">> >>
workspaceDir == << <<"w">>, <<"p">> >>

CacheName == <<"c", "a", "c", "h", "e">>
DotLipName == <<".", "l", "i", "p">>
MetadataName == <<"m", "e", "t", "a", "d", "a", "t", "a">>
PluginsName == <<"p", "l", "u", "g", "i", "n", "s">>
JsonExt == <<".", "j", "s", "o", "n">>

CachePath == Join(globalDotLipDir, CacheName)
WorkspaceDotLipPath == Join(workspaceDir, DotLipName)
MetadataPath == Join(WorkspaceDotLipPath, MetadataName)
PluginPath == Join(WorkspaceDotLipPath, PluginsName)

\* The directories each accessor ensures, in the order of its calls to
\* createDirIfNotExist; the accessor returns the last one.
GlobalDotLipDir == <<globalDotLipDir>>
CacheDir == Append(GlobalDotLipDir, CachePath)
WorkspaceDir == <<workspaceDir>>
WorkspaceDotLipDir == Append(WorkspaceDir, WorkspaceDotLipPath)
MetadataDir == Append(WorkspaceDotLipDir, MetadataPath)
PluginDir == Append(WorkspaceDotLipDir, PluginPath)

Accessors ==
    {"GlobalDotLipDir", "CacheDir", "WorkspaceDir", "WorkspaceDotLipDir",
     "MetadataDir", "PluginDir"}
ChainOf(a) ==
    CASE a = "GlobalDotLipDir" -> GlobalDotLipDir
      [] a = "CacheDir" -> CacheDir
      [] a = "WorkspaceDir" -> WorkspaceDir
      [] a = "WorkspaceDotLipDir" -> WorkspaceDotLipDir
      [] a = "MetadataDir" -> MetadataDir
      [] a = "PluginDir" -> PluginDir
TargetOf(a) == ChainOf(a)[Len(ChainOf(a))]

(***************************************************************************)
(* The file system and the system calls the code makes                     *)
(***************************************************************************)
Paths ==
    {Parent(globalDotLipDir), globalDotLipDir, CachePath,
     Parent(workspaceDir), workspaceDir, WorkspaceDotLipPath, MetadataPath, PluginPath}

KindOf(f, path) ==
    IF path = <<>> THEN "dir" ELSE IF path \in DOMAIN f THEN f[path] ELSE "absent"

RECURSIVE Lookup(_, _)
\* Path resolution: "ok", or the errno of stat(2).
Lookup(f, path) ==
    IF path = <<>> THEN "ok"
    ELSE LET up == Lookup(f, Parent(path))
         IN  IF up # "ok" THEN up
             ELSE IF KindOf(f, Parent(path)) = "file" THEN "ENOTDIR"
             ELSE IF KindOf(f, path) = "absent" THEN "ENOENT"
             ELSE "ok"

\* os.Stat and os.Lstat (the model has no symbolic links).
Stat(f, path) == Lookup(f, path)
IsDir(f, path) == Lookup(f, path) = "ok" /\ KindOf(f, path) = "dir"

\* os.Mkdir: the errno, or "ok" when the directory is created.
MkdirErrno(f, w, path) ==
    IF Lookup(f, Parent(path)) # "ok" THEN Lookup(f, Parent(path))
    ELSE IF KindOf(f, Parent(path)) = "file" THEN "ENOTDIR"
    ELSE IF KindOf(f, path) # "absent" THEN "EEXIST"
    ELSE IF ~w THEN "EACCES"
    ELSE "ok"
Mkdir(f, w, path) ==
    IF MkdirErrno(f, w, path) = "ok" THEN [f EXCEPT ![path] = "dir"] ELSE f

(***************************************************************************)
(* One caller inside an accessor: createDirIfNotExist on each directory of *)
(* the chain, os.MkdirAll unfolded into the system calls it makes.         *)
(*   pc = "stat"      createDirIfNotExist is about to os.Stat(Head(todo))  *)
(*   pc = "ma_stat"   os.MkdirAll(Head(stack)) is about to Stat its path   *)
(*   pc = "ma_mkdir"  os.MkdirAll(Head(stack)) is about to Mkdir its path  *)
(*   pc = "ma_lstat"  Mkdir failed; MkdirAll is about to Lstat its path    *)
(*   pc = "idle"      no call in progress; ret is what the last returned   *)
(***************************************************************************)
NoRet == [kind |-> "none", path |-> <<>>, errno |-> "none"]
Begin(a) == [pc |-> "stat", call |-> a, todo |-> ChainOf(a), stack |-> <<>>,
             ret |-> NoRet, errno |-> "none"]

\* return "", fmt.Errorf(...)
ReturnError(l, e) ==
    [l EXCEPT !.pc = "idle", !.todo = <<>>, !.stack = <<>>, !.errno = "none",
              !.ret = [kind |-> "error", path |-> <<>>, errno |-> e]]

\* createDirIfNotExist(Head(todo)) returned nil: the accessor goes on to its
\* next directory, or returns the path.
DirEnsured(l) ==
    IF Len(l.todo) = 1
    THEN [l EXCEPT !.pc = "idle", !.todo = <<>>, !.stack = <<>>, !.errno = "none",
                   !.ret = [kind |-> "ok", path |-> Head(l.todo), errno |-> "none"]]
    ELSE [l EXCEPT !.pc = "stat", !.todo = Tail(l.todo), !.stack = <<>>, !.errno = "none"]

\* The innermost os.MkdirAll returned nil.
FrameDone(l) ==
    IF Len(l.stack) = 1 THEN DirEnsured(l)
    ELSE [l EXCEPT !.pc = "ma_mkdir", !.stack = Tail(l.stack), !.errno = "none"]

\* if os.IsNotExist(err) { MkdirAll } else if err != nil { return err }; return nil
createDirIfNotExist(l, f) ==
    LET e == Stat(f, Head(l.todo))
    IN  IF e = "ENOENT" THEN [l EXCEPT !.pc = "ma_stat", !.stack = <<Head(l.todo)>>]
        ELSE IF e # "ok" THEN ReturnError(l, e)
        ELSE DirEnsured(l)

\* os.MkdirAll creates the parent first unless the parent is the root.
\* Faulty variant: os.Mkdir in place of os.MkdirAll, which makes no parent.
HasParentToMakeNever(path) == FALSE
HasParentToMake(path) == Len(path) > 1

\* os.MkdirAll, fast path: an existing directory is success, an existing
\* file is ENOTDIR; otherwise the parent is made first.
MkdirAllStatStep(l, f) ==
    LET top == Head(l.stack)
    IN  IF Stat(f, top) = "ok"
        THEN IF KindOf(f, top) = "dir" THEN FrameDone(l) ELSE ReturnError(l, "ENOTDIR")
        ELSE IF HasParentToMake(top) THEN [l EXCEPT !.stack = <<Parent(top)>> \o l.stack]
        ELSE [l EXCEPT !.pc = "ma_mkdir"]

\* err = Mkdir(path, perm)
MkdirAllMkdirStep(l, f, w) ==
    LET e == MkdirErrno(f, w, Head(l.stack))
    IN  IF e = "ok" THEN FrameDone(l) ELSE [l EXCEPT !.pc = "ma_lstat", !.errno = e]

\* dir, err1 := Lstat(path); if err1 == nil && dir.IsDir() { return nil }
\* Faulty variant: the failure of Mkdir returned without the second look.
ExistsAsDirIgnored(f, path) == FALSE
ExistsAsDir(f, path) == IsDir(f, path)

MkdirAllLstatStep(l, f) ==
    IF ExistsAsDir(f, Head(l.stack)) THEN FrameDone(l) ELSE ReturnError(l, l.errno)

\* One step of a caller: its next local state and the file system after it.
Step(l, f, w) ==
    CASE l.pc = "stat" -> [l |-> createDirIfNotExist(l, f), fs |-> f]
      [] l.pc = "ma_stat" -> [l |-> MkdirAllStatStep(l, f), fs |-> f]
      [] l.pc = "ma_mkdir" -> [l |-> MkdirAllMkdirStep(l, f, w), fs |-> Mkdir(f, w, Head(l.stack))]
      [] l.pc = "ma_lstat" -> [l |-> MkdirAllLstatStep(l, f), fs |-> f]

RECURSIVE Run(_, _, _)
\* A call executed with no other caller in between.
Run(l, f, w) ==
    IF l.pc = "idle" THEN [l |-> l, fs |-> f]
    ELSE LET s == Step(l, f, w) IN Run(s.l, s.fs, w)

(***************************************************************************)
(* url.QueryEscape and the two Calculate...Path functions                  *)
(***************************************************************************)
\* shouldEscape(c, encodeQueryComponent): letters, digits, '-', '_', '.', '~'
\* are kept.
Unreserved(c) == IsAlnum(c) \/ c \in {"-", "_", ".", "~"}
HexOf(c) ==
    CASE c = " " -> <<"2", "0">>
      [] c = "%" -> <<"2", "5">>
      [] c = "+" -> <<"2", "B">>
      [] c = "/" -> <<"2", "F">>
      [] c = ":" -> <<"3", "A">>
      [] c = "?" -> <<"3", "F">>

EscapeChar(c) ==
    IF Unreserved(c) THEN <<c>>
    ELSE IF c = " " THEN <<"+">>
    ELSE <<"%">> \o HexOf(c)

RECURSIVE QueryEscape(_)
QueryEscape(s) ==
    IF s = <<>> THEN <<>> ELSE EscapeChar(Head(s)) \o QueryEscape(Tail(s))

\* What an accessor, and a Calculate...Path built on it, returns.
CacheFileName(fileURL) == QueryEscape(fileURL)
\* Faulty variant: the ".json" extension forgotten.
MetadataFileNameNoExt(toothRepo) == QueryEscape(toothRepo)
MetadataFileName(toothRepo) == QueryEscape(toothRepo) \o JsonExt

CalculatePath(dirRet, fileName) ==
    IF dirRet.kind # "ok" THEN dirRet
    ELSE [kind |-> "ok", path |-> Join(dirRet.path, fileName), errno |-> "none"]

(***************************************************************************)
(* Bounds and initial file systems                                         *)
(***************************************************************************)
NumCallers == 2
MaxKeyLen == 2

Callers == 1..NumCallers
KeyChars == {"a", ".", "/", " ", "+", "%"}
Keys == SeqsUpTo(KeyChars, MaxKeyLen)

\* Every file system over Paths in which only directories have children.
FsConfigs ==
    {f \in [Paths -> {"absent", "dir", "file"}] :
        \A q \in Paths : f[q] # "absent" => KindOf(f, Parent(q)) = "dir"}
AllAbsent == [q \in Paths |-> "absent"]

NoCall == [op |-> "none", key |-> <<>>, before |-> AllAbsent, ret |-> NoRet]

CodecIdle ==
    /\ mpc = "start"
    /\ jsonData = MalformedDoc
    /\ result = NoResult
    /\ encoded = NoBytes
    /\ redecoded = NoResult

CallersIdle ==
    /\ pc = [p \in Callers |-> "idle"]
    /\ call = [p \in Callers |-> "none"]
    /\ todo = [p \in Callers |-> <<>>]
    /\ stack = [p \in Callers |-> <<>>]
    /\ ret = [p \in Callers |-> NoRet]
    /\ errno = [p \in Callers |-> "none"]

callerVars == <<pc, call, todo, stack, ret, errno>>

(***************************************************************************)
(* SpecManifest: the codec scenario                                        *)
(***************************************************************************)
InitManifest ==
    /\ CodecIdle
    /\ CallersIdle
    /\ fs = AllAbsent /\ writable = TRUE
    /\ prev = NoCall /\ last = NoCall

NextManifest == CallNewFromJSON \/ CallJSON \/ CallNewFromJSONAgain

SpecManifest == InitManifest /\ [][NextManifest]_vars

(***************************************************************************)
(* SpecDirs: one caller invokes the directory accessors one after another  *)
(***************************************************************************)
InitDirs ==
    /\ CodecIdle
    /\ CallersIdle
    /\ fs \in FsConfigs
    /\ writable \in BOOLEAN
    /\ prev = NoCall /\ last = NoCall

CallAccessor ==
    \E a \in Accessors :
        LET r == Run(Begin(a), fs, writable)
        IN  /\ fs' = r.fs
            /\ last' = [op |-> a, key |-> <<>>, before |-> fs, ret |-> r.l.ret]
            /\ UNCHANGED <<manifestVars, writable, callerVars, prev>>

SpecDirs == InitDirs /\ [][CallAccessor]_vars

(***************************************************************************)
(* SpecPath: one caller invokes CalculateCachePath or                      *)
(* CalculateMetadataPath twice; both calls are remembered                  *)
(***************************************************************************)
InitPath ==
    /\ CodecIdle
    /\ CallersIdle
    /\ fs = AllAbsent
    /\ writable \in BOOLEAN
    /\ prev = NoCall /\ last = NoCall

CalculateCachePath ==
    /\ prev.op = "none"
    /\ last.op \in {"none", "CalculateCachePath"}
    /\ LET r == Run(Begin("CacheDir"), fs, writable)
       IN  /\ fs' = r.fs
           /\ prev' = last
           /\ \E fileURL \in Keys :
                last' = [op |-> "CalculateCachePath", key |-> fileURL, before |-> AllAbsent,
                         ret |-> CalculatePath(r.l.ret, CacheFileName(fileURL))]
    /\ UNCHANGED <<manifestVars, writable, callerVars>>

CalculateMetadataPath ==
    /\ prev.op = "none"
    /\ last.op \in {"none", "CalculateMetadataPath"}
    /\ LET r == Run(Begin("MetadataDir"), fs, writable)
       IN  /\ fs' = r.fs
           /\ prev' = last
           /\ \E toothRepo \in Keys :
                last' = [op |-> "CalculateMetadataPath", key |-> toothRepo, before |-> AllAbsent,
                         ret |-> CalculatePath(r.l.ret, MetadataFileName(toothRepo))]
    /\ UNCHANGED <<manifestVars, writable, callerVars>>

NextPath == CalculateCachePath \/ CalculateMetadataPath

SpecPath == InitPath /\ [][NextPath]_vars

(***************************************************************************)
(* SpecRace: NumCallers callers are inside the same accessor at once       *)
(***************************************************************************)
Local(p) ==
    [pc |-> pc[p], call |-> call[p], todo |-> todo[p], stack |-> stack[p],
     ret |-> ret[p], errno |-> errno[p]]

SetLocal(p, l) ==
    /\ pc' = [pc EXCEPT ![p] = l.pc]
    /\ call' = [call EXCEPT ![p] = l.call]
    /\ todo' = [todo EXCEPT ![p] = l.todo]
    /\ stack' = [stack EXCEPT ![p] = l.stack]
    /\ ret' = [ret EXCEPT ![p] = l.ret]
    /\ errno' = [errno EXCEPT ![p] = l.errno]

\* Directories on the way to path, path included.
RECURSIVE Ancestors(_)
Ancestors(path) == IF path = <<>> THEN {} ELSE {path} \cup Ancestors(Parent(path))

InitRace ==
    /\ CodecIdle
    /\ prev = NoCall /\ last = NoCall
    /\ writable \in BOOLEAN
    /\ \E a \in Accessors :
        /\ fs \in {f \in FsConfigs :
                     /\ f[TargetOf(a)] = "absent"
                     /\ \A q \in Paths \ Ancestors(TargetOf(a)) : f[q] = "absent"}
        /\ pc = [p \in Callers |-> "stat"]
        /\ call = [p \in Callers |-> a]
        /\ todo = [p \in Callers |-> ChainOf(a)]
        /\ stack = [p \in Callers |-> <<>>]
        /\ ret = [p \in Callers |-> NoRet]
        /\ errno = [p \in Callers |-> "none"]

Advance(p) ==
    /\ SetLocal(p, Step(Local(p), fs, writable).l)
    /\ fs' = Step(Local(p), fs, writable).fs

OsStat ==
    /\ \E p \in Callers : pc[p] = "stat" /\ Advance(p)
    /\ UNCHANGED <<manifestVars, writable, pathVars>>
MkdirAllStat ==
    /\ \E p \in Callers : pc[p] = "ma_stat" /\ Advance(p)
    /\ UNCHANGED <<manifestVars, writable, pathVars>>
MkdirAllMkdir ==
    /\ \E p \in Callers : pc[p] = "ma_mkdir" /\ Advance(p)
    /\ UNCHANGED <<manifestVars, writable, pathVars>>
MkdirAllLstat ==
    /\ \E p \in Callers : pc[p] = "ma_lstat" /\ Advance(p)
    /\ UNCHANGED <<manifestVars, writable, pathVars>>

NextRace == OsStat \/ MkdirAllStat \/ MkdirAllMkdir \/ MkdirAllLstat

SpecRace == InitRace /\ [][NextRace]_vars

(***************************************************************************)
(* Properties of the codec (SpecManifest)                                  *)
(***************************************************************************)
HasUpper(s) == \E i \in DOMAIN s : IsUpper(s[i])
\* A token as the data model wants it: non-empty, alphanumeric first
\* character, no whitespace.
TokenOK(t) ==
    /\ Len(t) >= 1
    /\ IsAlnum(t[1])
    /\ \A i \in DOMAIN t : ~IsSpace(t[i])
Tokens(pl) == {pl[i].source : i \in DOMAIN pl} \cup {pl[i].destination : i \in DOMAIN pl}
\* NewFromJSON accepts the document once its field key is replaced by value.
AcceptedWith(doc, key, value) ==
    \E r \in NewFromJSON([k \in DOMAIN doc \cup {key} |-> IF k = key THEN value ELSE doc[k]]) :
        r.kind = "ok"

\* C1: every Manifest m that NewFromJSON returns is encoded by m.JSON()
\* without error, and NewFromJSON of those bytes returns a Manifest equal to
\* m field for field: tooth path, version, information, the placement list
\* in order, and per dependency key the OR-groups and their matches in order.
RoundTrip ==
    /\ mpc \in {"encoded", "redecoded"} => encoded.kind = "ok"
    /\ mpc = "redecoded" =>
        LET m == result.metadata
            n == redecoded.metadata
        IN  /\ redecoded.kind = "ok"
            /\ n.ToothPath = m.ToothPath
            /\ n.Version = m.Version
            /\ n.Information = m.Information
            /\ Len(n.Placement) = Len(m.Placement)
            /\ \A i \in DOMAIN m.Placement : n.Placement[i] = m.Placement[i]
            /\ DOMAIN n.Dependencies = DOMAIN m.Dependencies
            /\ \A k \in DOMAIN m.Dependencies :
                /\ Len(n.Dependencies[k]) = Len(m.Dependencies[k])
                /\ \A i \in DOMAIN m.Dependencies[k] :
                    /\ Len(n.Dependencies[k][i]) = Len(m.Dependencies[k][i])
                    /\ \A j \in DOMAIN m.Dependencies[k][i] :
                        n.Dependencies[k][i][j] = m.Dependencies[k][i][j]

\* A round trip of a Manifest with two different placement entries, two
\* OR-groups under one dependency key and a pre-release version.
RoundTripWitness ==
    /\ mpc = "redecoded"
    /\ Len(result.metadata.Placement) = 2
    /\ result.metadata.Placement[1] # result.metadata.Placement[2]
    /\ "pkga" \in DOMAIN result.metadata.Dependencies
    /\ Len(result.metadata.Dependencies["pkga"]) = 2
    /\ result.metadata.Version.pre # <<>>

\* C2: decoding a syntactically valid document that lacks one of the five
\* information fields ends with NewFromJSON returning an error, never with
\* a crash and never with a Manifest.
MissingInformationIsAnError ==
    (mpc = "decoded" /\ WellFormed(jsonData) /\ ~InfoComplete(jsonData))
        => result.kind = "error"

\* C3: every placement token of a returned Manifest is non-empty, starts
\* with an alphanumeric character and holds no whitespace; a document with
\* an empty token, a token holding a space or a token starting with a space
\* is not accepted, and the token "assets/file.txt" is.
PlacementTokensValid ==
    mpc = "decoded" =>
        /\ result.kind = "ok" =>
            \A i \in DOMAIN result.metadata.Placement :
                /\ TokenOK(result.metadata.Placement[i].Source)
                /\ TokenOK(result.metadata.Placement[i].Destination)
        /\ (/\ WellFormed(jsonData) /\ Has(jsonData, "placement")
            /\ \E t \in Tokens(jsonData.placement) :
                  t = <<>> \/ \E i \in DOMAIN t : t[i] = " ")
                => result.kind # "ok"
        /\ (/\ WellFormed(jsonData) /\ Has(jsonData, "placement")
            /\ Tokens(jsonData.placement) = {AssetsFile}
            /\ AcceptedWith(jsonData, "placement", <<>>))
                => result.kind = "ok"

\* C8: the tooth path of a returned Manifest is the lower-cased "tooth"
\* value of the document and is valid; a document whose tooth value has
\* upper-case letters is accepted exactly when the lower-cased value is
\* valid (its other fields being acceptable); a document whose lower-cased
\* tooth value is invalid is refused with the invalid-tooth-path error.
ToothPathInvariant ==
    (mpc = "decoded" /\ WellFormed(jsonData) /\ Has(jsonData, "tooth")) =>
        LET low == ToLower(jsonData.tooth)
        IN  /\ result.kind = "ok" =>
                /\ result.metadata.ToothPath = low
                /\ ~HasUpper(result.metadata.ToothPath)
                /\ IsValidToothPath(result.metadata.ToothPath)
            /\ ~IsValidToothPath(low) =>
                /\ result.kind = "error"
                /\ result.field = "tooth"
                /\ result.detail = low
            /\ (HasUpper(jsonData.tooth) /\ AcceptedWith(jsonData, "tooth", <<"a">>)) =>
                (result.kind = "ok" <=> IsValidToothPath(low))

\* A document with an upper-case tooth value was accepted.
ToothPathWitness ==
    /\ mpc = "decoded"
    /\ result.kind = "ok"
    /\ HasUpper(jsonData.tooth)
    /\ result.metadata.ToothPath = <<"c", "o", "m", ".", "e", "/", "p">>

\* The fields a document violates, and their order in NewFromJSON.
FieldOrder == <<"tooth", "version", "dependencies", "information", "placement">>
Violates(doc, f) ==
    CASE f = "tooth" -> ~Has(doc, "tooth") \/ ~IsValidToothPath(ToLower(doc.tooth))
      [] f = "version" -> ~Has(doc, "version") \/ ~VersionParses(doc.version)
      [] f = "dependencies" ->
            \/ ~Has(doc, "dependencies")
            \/ \E k \in DOMAIN doc.dependencies : BadMatches(doc.dependencies[k]) # {}
      [] f = "information" -> ~InfoComplete(doc)
      [] f = "placement" ->
            \/ ~Has(doc, "placement")
            \/ \E t \in Tokens(doc.placement) : ~TokenOK(t)
Violated(doc) == {i \in DOMAIN FieldOrder : Violates(doc, FieldOrder[i])}
FirstViolated(doc) ==
    FieldOrder[CHOOSE i \in Violated(doc) : \A j \in Violated(doc) : i <= j]
ErrorField(r) == IF r.field \in {"source", "destination"} THEN "placement" ELSE r.field

\* C10: NewFromJSON checks tooth path, version, dependencies, information
\* and placement in that order; for a document violating several of them it
\* returns one error, that of the first violated field, and the empty
\* Manifest beside it.
FailFastOrder ==
    (mpc = "decoded" /\ WellFormed(jsonData) /\ Cardinality(Violated(jsonData)) >= 2) =>
        /\ result.kind = "error"
        /\ ErrorField(result) = FirstViolated(jsonData)
        /\ result.metadata = EmptyMetadata

(***************************************************************************)
(* Properties of the path authority                                        *)
(***************************************************************************)
BothOk(op) ==
    /\ prev.op = op /\ last.op = op
    /\ prev.ret.kind = "ok" /\ last.ret.kind = "ok"

\* C4 (SpecPath): with a cache directory that can be created, two calls of
\* CalculateCachePath return the same path for the same source URL and
\* different paths for different source URLs, "", "." and ".." included.
CachePathCollisionFree ==
    BothOk("CalculateCachePath") =>
        (prev.key = last.key <=> prev.ret.path = last.ret.path)

\* C9 (SpecPath): with a metadata directory that can be created,
\* CalculateMetadataPath returns
\* <workspaceRoot>/.lip/metadata/<escaped package path>.json, the same path
\* for the same package path and different paths for different ones.
MetadataPathCollisionFree ==
    /\ (last.op = "CalculateMetadataPath" /\ last.ret.kind = "ok") =>
        last.ret.path =
            workspaceDir \o <<DotLipName, MetadataName, QueryEscape(last.key) \o JsonExt>>
    /\ BothOk("CalculateMetadataPath") =>
        (prev.key = last.key <=> prev.ret.path = last.ret.path)

\* Two successful calls with the package paths ".." and ".".
MetadataPathWitness ==
    /\ BothOk("CalculateMetadataPath")
    /\ prev.key = <<".", ".">>
    /\ last.key = <<".">>
    /\ IsDir(fs, MetadataPath)

\* C5 (SpecDirs): an accessor that finds a regular file where one of the
\* directories it has to ensure should be returns an error.
NonDirectoryIsAnError ==
    (last.op \in Accessors
     /\ \E i \in DOMAIN ChainOf(last.op) : KindOf(last.before, ChainOf(last.op)[i]) = "file")
        => last.ret.kind = "error"

CreationPermitted(f, w, path) ==
    w /\ \A q \in Ancestors(path) : KindOf(f, q) # "file"

\* C7 (SpecDirs): a MetadataDir() call that finds the metadata directory
\* absent, creation being permitted, returns <workspaceRoot>/.lip/metadata
\* and leaves the workspace root, its .lip directory and the metadata
\* directory in place; a call that finds the directory present returns the
\* same path and changes nothing on disk.
DirectoryLaziness ==
    last.op = "MetadataDir" =>
        LET path == workspaceDir \o <<DotLipName, MetadataName>>
            made == [kind |-> "ok", path |-> path, errno |-> "none"]
        IN  /\ (/\ KindOf(last.before, path) = "absent"
                /\ CreationPermitted(last.before, writable, path))
                => /\ last.ret = made
                   /\ IsDir(fs, workspaceDir)
                   /\ IsDir(fs, workspaceDir \o <<DotLipName>>)
                   /\ IsDir(fs, path)
            /\ KindOf(last.before, path) = "dir"
                => /\ last.ret = made
                   /\ fs = last.before

\* MetadataDir() was called with nothing of the workspace on disk, not even
\* the parent of the workspace root, and returned the path.
DirectoryLazinessWitness ==
    /\ last.op = "MetadataDir"
    /\ last.before = AllAbsent
    /\ last.ret.kind = "ok"
    /\ IsDir(fs, MetadataPath)

\* C6 (SpecRace): callers inside the same accessor at once, its directory
\* absent at first and creation permitted: whatever the interleaving of
\* their system calls, each caller returns the accessor's path without
\* error, the directory then exists, and no caller ever returns EEXIST.
RaceSafe ==
    \A p \in Callers :
        /\ ret[p].errno # "EEXIST"
        /\ (pc[p] = "idle" /\ CreationPermitted(fs, writable, TargetOf(call[p])))
            => /\ ret[p] = [kind |-> "ok", path |-> TargetOf(call[p]), errno |-> "none"]
               /\ IsDir(fs, TargetOf(call[p]))

\* One caller has returned the path while another, whose Mkdir lost the
\* race with EEXIST, is about to look at the directory again.
RaceWitness ==
    \E p, q \in Callers :
        /\ pc[p] = "idle" /\ ret[p].kind = "ok"
        /\ pc[q] = "ma_lstat" /\ errno[q] = "EEXIST"
        /\ writable

====
